---- MODULE Spec2Model ----
(***************************************************************************)
(* Model of the dual audio recorder of MeetingVideo-Transrecorder:         *)
(* AudioRecorder (src/src/audio_processing.py) with its device scan, its   *)
(* two capture threads, the stop/join sequence and the mixer, together     *)
(* with the configuration it reads (src/src/config.py).                    *)
(* Three further specifications share the variables: the device scan      *)
(* alone (SpecScan), one session of a front end (SpecFront: main_bot.py    *)
(* and options 1 and 2 of dual_audio_bot.py, with process_recording.py     *)
(* downstream) and the recorder with a stream whose stop_stream may raise  *)
(* (SpecStreams).  SpecLive is the recorder under fair scheduling of its   *)
(* threads, SpecPair runs AudioRecorder next to the DualAudioRecorder of   *)
(* dual_audio_bot.py (variable dual), SpecVideo is the VideoRecorder of    *)
(* src/src/video_processing.py (variable video) and SpecProcessing the     *)
(* transcription, summary and session flows over the files on disk        *)
(* (variable disk).                                                        *)
(*                                                                         *)
(* Python's None is the empty sequence <<>>; an optional value v is <<v>>. *)
(* A raw chunk is [by, ch, amp]: the capture thread that read it, the      *)
(* channel count its stream was opened with and one sample amplitude (the  *)
(* chunk is a constant signal).  A decoded waveform is a sequence of runs  *)
(* [amp, n]: n consecutive frames of amplitude amp.                        *)
(***************************************************************************)
EXTENDS Integers, Sequences, FiniteSets, TLC

\* ------------------------------------------------------------------ bounds
\* Capture threads alive at once: start_recording is not called when the
\* two threads it starts would make more.
MaxThreads == 3
\* Chunks a buffer holds before further reads only fail.
MaxFrames == 1
\* Devices in an enumeration of the scan's own specification.
MaxDevices == 2

\* ------------------------------------------------------- program constants
sample_rate == 44100
chunk_size == 1024
default_channels == 2
default_microphone_reduction_db == 6
\* pyaudio.paInt16 samples: get_sample_size(paInt16) bytes, signed 16 bit.
sample_width == 2
INT16_MAX == 32767
INT16_MIN == 0 - 32768
\* pydub tolerates this many milliseconds of missing frames in a slice.
slice_tolerance_ms == 2

None == <<>>
Some(v) == <<v>>
Min(a, b) == IF a <= b THEN a ELSE b

\* config.audio: the values the behaviours are checked for.  The defaults
\* are channels = 2 and microphone_reduction_db = 6.
AudioConfigs ==
    { [channels |-> default_channels,
       microphone_reduction_db |-> default_microphone_reduction_db],
      [channels |-> 1, microphone_reduction_db |-> 0] }

\* Sample amplitudes the reads of each source return.
SystemAmps == {12000}
MicAmps == {0 - 20000}
AmpsOf(src) == IF src = "system" THEN SystemAmps ELSE MicAmps

\* ---------------------------------------------------------- device names
\* A device name is the set of keywords its lower-cased name contains.
system_keywords == {"stereo mix", "what you hear", "wave out mix", "loopback", "monitor"}
mic_keywords == {"microphone", "mic", "hyperx", "webcam", "camera", "headset", "array"}

Device(name, maxIn) == [name |-> name, maxInputChannels |-> maxIn]

\* Device lists the audio subsystem can enumerate (index = position - 1).
DeviceLists ==
    { <<>>,
      << Device({"mic", "microphone"}, 2), Device({"monitor"}, 2),
         Device({"stereo mix"}, 4), Device({"hyperx", "mic"}, 1) >>,
      << Device({"stereo mix"}, 0), Device({"webcam"}, 1),
         Device({}, 2) >> }

VARIABLES
    config,               \* config.audio
    recording,            \* self.recording
    system_audio_frames,  \* self.system_audio_frames
    mic_audio_frames,     \* self.mic_audio_frames
    system_audio_device,  \* self.system_audio_device (optional index)
    mic_device,           \* self.mic_device (optional index)
    system_device_info,   \* self.system_device_info (optional device)
    mic_device_info,      \* self.mic_device_info (optional device)
    system_audio_thread,  \* self.system_audio_thread (optional thread id)
    mic_audio_thread,     \* self.mic_audio_thread (optional thread id)
    threads,              \* every capture thread ever started, by id
    ctl,                  \* position of the control thread
    last,                 \* the most recent API call and what it did
    front,                \* the front end driving the recorder, if any
    dual,                 \* a DualAudioRecorder run side by side, if any
    video,                \* a VideoRecorder, if any
    disk                  \* the files of the processing flows, if any

vars == << config, recording, system_audio_frames, mic_audio_frames,
           system_audio_device, mic_device, system_device_info,
           mic_device_info, system_audio_thread, mic_audio_thread,
           threads, ctl, last, front, dual, video, disk >>

\* What the recorder's own operations never touch.
backstage == << dual, video, disk >>
aux == << front, backstage >>

devvars == << system_audio_device, mic_device, system_device_info,
              mic_device_info >>
bufvars == << system_audio_frames, mic_audio_frames >>
thrvars == << system_audio_thread, mic_audio_thread, threads >>

\* ---------------------------------------------------------------- threads
ThreadIds == 1..MaxThreads

NewThread(src) ==
    [src |-> src, pc |-> "begin", ch |-> 0, stream |-> "none",
     failed |-> FALSE, nread |-> 0]

Unreferenced(th) == [th EXCEPT !.failed = FALSE, !.nread = 0]

IsCurrent(t) == Some(t) \in {system_audio_thread, mic_audio_thread}

Running == {t \in DOMAIN threads : threads[t].pc # "done"}

\* ------------------------------------------------------------ find devices
\* Indices (1-based positions) of the input-capable devices matching the
\* system keywords (isSystem) or the microphone keywords, in enumeration
\* order; the elif makes a system match exclude a mic match.
RECURSIVE Candidates(_, _, _)
Candidates(devs, i, isSystem) ==
    IF i > Len(devs) THEN <<>>
    ELSE LET d == devs[i]
             sysMatch == d.name \cap system_keywords # {}
             micMatch == d.name \cap mic_keywords # {}
             hit == /\ d.maxInputChannels > 0
                    /\ IF isSystem THEN sysMatch ELSE (~sysMatch /\ micMatch)
         IN  (IF hit THEN <<i>> ELSE <<>>) \o Candidates(devs, i + 1, isSystem)

\* The for/else selection: the first candidate whose name contains
\* `preferred`, else the first candidate.
RECURSIVE FirstWith(_, _, _)
FirstWith(devs, cands, preferred) ==
    IF cands = <<>> THEN None
    ELSE IF preferred \in devs[Head(cands)].name THEN Some(Head(cands))
    ELSE FirstWith(devs, Tail(cands), preferred)

\* Mutant: the selection without the preference, always the first candidate.
Select_FirstCandidate(devs, cands, preferred) ==
    IF cands = <<>> THEN None ELSE Some(Head(cands))

Select(devs, cands, preferred) ==
    IF cands = <<>> THEN None
    ELSE IF FirstWith(devs, cands, preferred) # None
         THEN FirstWith(devs, cands, preferred)
         ELSE Some(Head(cands))

NoCall == [op |-> "none"]

\* find_audio_devices over the enumeration devs.  The front ends scan before
\* they start a recording and never during one, and the scan is taken here
\* on a recorder at rest only (not recording, no capture thread alive).
\* A category without a candidate keeps the selection it had.
find_audio_devices(devs, raises) ==
    /\ ctl = "ready"
    /\ ~recording
    /\ Running = {}
    /\ last' = [op |-> "scan", raised |-> raises, devs |-> devs]
    /\ IF raises
       THEN UNCHANGED devvars
       ELSE LET sysSel == Select(devs, Candidates(devs, 1, TRUE), "stereo mix")
                micSel == Select(devs, Candidates(devs, 1, FALSE), "hyperx")
            IN  /\ IF sysSel # None
                   THEN /\ system_audio_device' = Some(sysSel[1] - 1)
                        /\ system_device_info' = Some(devs[sysSel[1]])
                   ELSE UNCHANGED << system_audio_device, system_device_info >>
                /\ IF micSel # None
                   THEN /\ mic_device' = Some(micSel[1] - 1)
                        /\ mic_device_info' = Some(devs[micSel[1]])
                   ELSE UNCHANGED << mic_device, mic_device_info >>
    /\ UNCHANGED << config, recording, bufvars, thrvars, ctl >>

\* --------------------------------------------------------- start_recording
\* threads maps the id of every thread object that matters to what is kept
\* of it: the two threads self.system_audio_thread / self.mic_audio_thread
\* name, and every earlier thread that has not ended.  A thread record is
\* its position (pc), its stream's channel count (ch) and, while an
\* attribute names it, how it went: failed (it raised in open, or in its
\* first read), nread (the chunks it appended), stream (none, open, closed;
\* leaked when stop_stream raised).
Lowest(S) == CHOOSE x \in S : \A y \in S : x <= y

\* Mutant: the buffers of the previous session are kept.
start_recording_KeepsBuffers ==
    /\ ctl = "ready"
    /\ Cardinality(Running) + 2 <= MaxThreads
    /\ last' = [op |-> "start", was_recording |-> recording]
    /\ recording' = TRUE
    /\ LET s == Lowest(ThreadIds \ Running)
           m == Lowest(ThreadIds \ (Running \cup {s}))
       IN  /\ threads' =
                [t \in Running \cup {s, m} |->
                    IF t = s THEN NewThread("system")
                    ELSE IF t = m THEN NewThread("mic")
                    ELSE Unreferenced(threads[t])]
           /\ system_audio_thread' = Some(s)
           /\ mic_audio_thread' = Some(m)
    /\ UNCHANGED << config, bufvars, devvars, ctl >>

start_recording ==
    /\ ctl = "ready"
    /\ Cardinality(Running) + 2 <= MaxThreads
    /\ last' = [op |-> "start", was_recording |-> recording]
    /\ recording' = TRUE
    /\ system_audio_frames' = <<>>
    /\ mic_audio_frames' = <<>>
    /\ LET s == Lowest(ThreadIds \ Running)
           m == Lowest(ThreadIds \ (Running \cup {s}))
       IN  /\ threads' =
                [t \in Running \cup {s, m} |->
                    IF t = s THEN NewThread("system")
                    ELSE IF t = m THEN NewThread("mic")
                    ELSE Unreferenced(threads[t])]
           /\ system_audio_thread' = Some(s)
           /\ mic_audio_thread' = Some(m)
    /\ UNCHANGED << config, devvars, ctl >>

\* --------------------------------------------------------- capture threads
DeviceOf(src) == IF src = "system" THEN system_audio_device ELSE mic_device
InfoOf(src) == IF src = "system" THEN system_device_info ELSE mic_device_info

\* Mutant: the stream is opened with the configured channel count.
StreamChannels_Unclamped(src) == config.channels

\* channels = min(config.audio.channels, device_info['maxInputChannels'])
StreamChannels(src) == Min(config.channels, InfoOf(src)[1].maxInputChannels)

\* The thread's exit through stream.stop_stream(); stream.close(): when
\* stop_stream raises, the outer handler logs and close is never reached.
CloseStream(th, readRaised, stopRaises) ==
    [th EXCEPT !.pc = "done", !.failed = readRaised /\ th.nread = 0, !.ch = 0,
               !.stream = IF stopRaises THEN "leaked" ELSE "closed"]

\* threads after thread t moved to th: a thread that ended and that no
\* attribute names is gone.
ThreadsWith(t, th) ==
    IF th.pc = "done" /\ ~IsCurrent(t)
    THEN [u \in DOMAIN threads \ {t} |-> threads[u]]
    ELSE [threads EXCEPT ![t] = th]

\* The loop test `while self.recording` of a thread whose stream is open:
\* on to the next stream.read, or out of the loop to release the stream.
\* The test is taken in one step with what precedes it in the thread (the
\* stream open, or the append of the chunk just read): between the two the
\* thread touches nothing another thread can see.
\* Mutant: the loop never tests the flag.
LoopTest_IgnoresFlag(th, stopRaises) == [th EXCEPT !.pc = "read"]

LoopTest(th, stopRaises) ==
    IF recording THEN [th EXCEPT !.pc = "read"]
    ELSE CloseStream(th, FALSE, stopRaises)

\* Mutant: a stream that cannot be opened ends the whole recording.
thread_begin_EndsRecording(t, openRaises, stopRaises) ==
    /\ t \in DOMAIN threads
    /\ threads[t].pc = "begin"
    /\ LET th == threads[t]
       IN  IF DeviceOf(th.src) = None
           THEN /\ threads' = ThreadsWith(t, [th EXCEPT !.pc = "done"])
                /\ UNCHANGED recording
           ELSE IF openRaises
           THEN /\ threads' = ThreadsWith(t, [th EXCEPT !.pc = "done",
                                                        !.failed = TRUE])
                /\ recording' = FALSE
           ELSE /\ threads' =
                     ThreadsWith(t, LoopTest([th EXCEPT !.stream = "open",
                                                 !.ch = StreamChannels(th.src)],
                                             stopRaises))
                /\ UNCHANGED recording
    /\ UNCHANGED << config, bufvars, devvars, system_audio_thread,
                    mic_audio_thread, ctl, last >>

\* record_system_audio / record_microphone from its entry to its first
\* stream.read: the device test, the stream open and the first loop test.
thread_begin(t, openRaises, stopRaises) ==
    /\ t \in DOMAIN threads
    /\ threads[t].pc = "begin"
    /\ LET th == threads[t]
       IN  threads' =
             ThreadsWith(t,
                IF DeviceOf(th.src) = None
                THEN [th EXCEPT !.pc = "done"]
                ELSE IF openRaises
                THEN [th EXCEPT !.pc = "done", !.failed = TRUE]
                ELSE LoopTest([th EXCEPT !.stream = "open",
                                         !.ch = StreamChannels(th.src)],
                              stopRaises))
    /\ UNCHANGED << config, recording, bufvars, devvars, system_audio_thread,
                    mic_audio_thread, ctl, last >>

\* stream.read returns a chunk, which is appended to the buffer the
\* attribute names at that moment; then the loop test.
thread_read_ok(t, amp, stopRaises) ==
    /\ t \in DOMAIN threads
    /\ threads[t].pc = "read"
    /\ amp \in AmpsOf(threads[t].src)
    /\ LET chunk == [by |-> t, ch |-> threads[t].ch, amp |-> amp]
       IN  IF threads[t].src = "system"
           THEN /\ Len(system_audio_frames) < MaxFrames
                /\ system_audio_frames' = Append(system_audio_frames, chunk)
                /\ UNCHANGED mic_audio_frames
           ELSE /\ Len(mic_audio_frames) < MaxFrames
                /\ mic_audio_frames' = Append(mic_audio_frames, chunk)
                /\ UNCHANGED system_audio_frames
    /\ threads' =
         ThreadsWith(t,
            LoopTest([threads[t] EXCEPT
                         !.nread = IF IsCurrent(t) THEN @ + 1 ELSE @],
                     stopRaises))
    /\ UNCHANGED << config, recording, devvars, system_audio_thread,
                    mic_audio_thread, ctl, last >>

\* Mutant: a failed read ends the whole recording, not only its thread.
thread_read_error_EndsRecording(t, stopRaises) ==
    /\ t \in DOMAIN threads
    /\ threads[t].pc = "read"
    /\ threads' = ThreadsWith(t, CloseStream(threads[t], TRUE, stopRaises))
    /\ recording' = FALSE
    /\ UNCHANGED << config, bufvars, devvars, system_audio_thread,
                    mic_audio_thread, ctl, last >>

\* stream.read raises: the thread logs, breaks and releases the stream.
thread_read_error(t, stopRaises) ==
    /\ t \in DOMAIN threads
    /\ threads[t].pc = "read"
    /\ threads' = ThreadsWith(t, CloseStream(threads[t], TRUE, stopRaises))
    /\ UNCHANGED << config, recording, bufvars, devvars, system_audio_thread,
                    mic_audio_thread, ctl, last >>

\* ------------------------------------------------------------------ mixer
\* wave.open(...).writeframes(b''.join(frames)) followed by
\* AudioSegment.from_wav: the bytes of the chunks, reinterpreted as frames
\* of config.audio.channels channels.
ChunkBytes(c) == chunk_size * c.ch * sample_width
FrameWidth == config.channels * sample_width

RECURSIVE Decode(_)
Decode(frames) ==
    IF frames = <<>> THEN <<>>
    ELSE << [amp |-> Head(frames).amp,
             n |-> ChunkBytes(Head(frames)) \div FrameWidth] >>
         \o Decode(Tail(frames))

RECURSIVE FrameCount(_)
FrameCount(w) == IF w = <<>> THEN 0 ELSE Head(w).n + FrameCount(Tail(w))

\* len(segment): round(1000 * frame_count / frame_rate) milliseconds.
LenMs(w) == (2 * 1000 * FrameCount(w) + sample_rate) \div (2 * sample_rate)

\* segment.frame_count(ms=ms), truncated to an integer.
FramesIn(ms) == (ms * sample_rate) \div 1000

\* The first k frames of w.
RECURSIVE Take(_, _)
Take(w, k) ==
    IF k <= 0 \/ w = <<>> THEN <<>>
    ELSE IF Head(w).n <= k THEN << Head(w) >> \o Take(Tail(w), k - Head(w).n)
    ELSE << [amp |-> Head(w).amp, n |-> k] >>

\* segment[:ms]: the frames up to min(ms, len); frames the data lacks are
\* filled with silence.
Slice(w, ms) ==
    LET want == FramesIn(Min(ms, LenMs(w)))
        missing == want - FrameCount(w)
    IN  IF missing > 0
        THEN Take(w, want) \o << [amp |-> 0, n |-> missing] >>
        ELSE Take(w, want)

\* A slice raises TooManyMissingFrames beyond the tolerance.
SliceRaises(w, ms) ==
    FramesIn(Min(ms, LenMs(w))) - FrameCount(w) > FramesIn(slice_tolerance_ms)

\* audioop's bound of a sample to the signed 16 bit range.
Clip(v) == IF v > INT16_MAX THEN INT16_MAX ELSE IF v < INT16_MIN THEN INT16_MIN ELSE v

\* db_to_float(-db) = 10 ** (-db / 20), in hundred-thousandths.
GainScale == 100000
DbToFloat(db) ==
    CASE db = 0 -> 100000
      [] db = 3 -> 70795
      [] db = 6 -> 50119
      [] db = 12 -> 25119
      [] db = 20 -> 10000

\* segment - db: audioop.mul by db_to_float(-db), floored and bounded.
ApplyGain(w, db) ==
    [i \in 1..Len(w) |->
        [amp |-> Clip((w[i].amp * DbToFloat(db)) \div GainScale), n |-> w[i].n]]

\* seg1.overlay(seg2) at position 0: audioop.add over the overlap, seg2 cut
\* to seg1's length, the rest of seg1 unchanged.
RECURSIVE Overlay(_, _)
Overlay(a, b) ==
    IF a = <<>> THEN <<>>
    ELSE IF b = <<>> THEN a
    ELSE LET k == Min(Head(a).n, Head(b).n)
             restA == IF Head(a).n = k THEN Tail(a)
                      ELSE << [amp |-> Head(a).amp, n |-> Head(a).n - k] >> \o Tail(a)
             restB == IF Head(b).n = k THEN Tail(b)
                      ELSE << [amp |-> Head(b).amp, n |-> Head(b).n - k] >> \o Tail(b)
         IN  << [amp |-> Clip(Head(a).amp + Head(b).amp), n |-> k] >>
             \o Overlay(restA, restB)

\* bool(segment): a segment is true when its length in ms is not 0.
Truthy(opt) == opt # None /\ LenMs(opt[1]) > 0

\* Where an operation of the mixer can raise.
MixFaults == {"none", "system_decode", "mic_decode", "overlay", "export"}

Raised(created, left) ==
    [result |-> None, mixed |-> None, source |-> "error", raised |-> TRUE,
     created |-> created, left |-> left]

\* A buffer written to its temporary wave file and read back: None when
\* the buffer is empty.
DecodeSource(frames) == IF frames # <<>> THEN Some(Decode(frames)) ELSE None

\* Mutant: the overlay without the cut to the shorter length.
MixBoth_Untruncated(system_audio, mic_audio) ==
    Overlay(system_audio, ApplyGain(mic_audio, config.microphone_reduction_db))

\* Mutant: the microphone attenuated by the literal 6 dB.
MixBoth_FixedReduction(system_audio, mic_audio) ==
    LET min_length == Min(LenMs(system_audio), LenMs(mic_audio))
    IN  Overlay(Slice(system_audio, min_length),
                ApplyGain(Slice(mic_audio, min_length),
                          default_microphone_reduction_db))

\* Both sources present: both cut to the shorter length, the microphone
\* attenuated by config.audio.microphone_reduction_db, then overlaid on the
\* system audio.
MixBoth(system_audio, mic_audio) ==
    LET min_length == Min(LenMs(system_audio), LenMs(mic_audio))
    IN  Overlay(Slice(system_audio, min_length),
                ApplyGain(Slice(mic_audio, min_length),
                          config.microphone_reduction_db))

MixBothRaises(system_audio, mic_audio) ==
    LET min_length == Min(LenMs(system_audio), LenMs(mic_audio))
    IN  \/ SliceRaises(system_audio, min_length)
        \/ SliceRaises(mic_audio, min_length)

\* Mutant: with no source an empty segment is exported.
ChooseMix_ExportsEmpty(system_audio, mic_audio) ==
    IF Truthy(system_audio) /\ Truthy(mic_audio)
    THEN [source |-> "both",
          mixed |-> Some(MixBoth(system_audio[1], mic_audio[1]))]
    ELSE IF Truthy(system_audio)
    THEN [source |-> "system", mixed |-> system_audio]
    ELSE IF Truthy(mic_audio)
    THEN [source |-> "mic", mixed |-> mic_audio]
    ELSE [source |-> "none", mixed |-> Some(<<>>)]

\* Mutant: a lone microphone is attenuated as in the two-source mix.
ChooseMix_AttenuatesLoneMic(system_audio, mic_audio) ==
    IF Truthy(system_audio) /\ Truthy(mic_audio)
    THEN [source |-> "both",
          mixed |-> Some(MixBoth(system_audio[1], mic_audio[1]))]
    ELSE IF Truthy(system_audio)
    THEN [source |-> "system", mixed |-> system_audio]
    ELSE IF Truthy(mic_audio)
    THEN [source |-> "mic",
          mixed |-> Some(ApplyGain(mic_audio[1],
                                   config.microphone_reduction_db))]
    ELSE [source |-> "none", mixed |-> None]

\* The if / elif / elif / else over the two decoded segments: which sources
\* make the mix, and the mixed segment (None: "No audio recorded!").
ChooseMix(system_audio, mic_audio) ==
    IF Truthy(system_audio) /\ Truthy(mic_audio)
    THEN [source |-> "both",
          mixed |-> Some(MixBoth(system_audio[1], mic_audio[1]))]
    ELSE IF Truthy(system_audio)
    THEN [source |-> "system", mixed |-> system_audio]
    ELSE IF Truthy(mic_audio)
    THEN [source |-> "mic", mixed |-> mic_audio]
    ELSE [source |-> "none", mixed |-> None]

\* The body of mix_audio_sources' try block on the two buffers, with the
\* operation that raises (if it is reached).  created: the files the call
\* created; left: those of them still on disk when it ends; raised: the
\* body ended by an exception instead of a return.
mix_body(sysF, micF, fault) ==
    LET system_audio == DecodeSource(sysF)
        mic_audio == DecodeSource(micF)
        sysTemp == IF sysF # <<>> THEN {"temp_system"} ELSE {}
        micTemp == IF micF # <<>> THEN {"temp_mic"} ELSE {}
        both == Truthy(system_audio) /\ Truthy(mic_audio)
        chosen == ChooseMix(system_audio, mic_audio)
    IN  IF sysF # <<>> /\ fault = "system_decode"
        THEN Raised(sysTemp, sysTemp)
        ELSE IF micF # <<>> /\ fault = "mic_decode"
        THEN Raised(sysTemp \cup micTemp, micTemp)
        ELSE IF both /\ (\/ fault = "overlay"
                         \/ MixBothRaises(system_audio[1], mic_audio[1]))
        THEN Raised(sysTemp \cup micTemp, {})
        ELSE IF chosen.mixed = None
        THEN [result |-> None, mixed |-> None, source |-> chosen.source,
              raised |-> FALSE, created |-> sysTemp \cup micTemp, left |-> {}]
        ELSE IF fault = "export"
        THEN Raised(sysTemp \cup micTemp, {})
        ELSE [result |-> Some("mixed_audio"), mixed |-> chosen.mixed,
              source |-> chosen.source, raised |-> FALSE,
              created |-> sysTemp \cup micTemp \cup {"mixed_audio"},
              left |-> {"mixed_audio"}]

\* What a call hands to its caller: the outcome out of its body, and whether
\* the exception that ended the body escaped the call.
Outcome(out, escaped) ==
    [result |-> out.result, mixed |-> out.mixed, source |-> out.source,
     raised |-> out.raised, created |-> out.created, left |-> out.left,
     escaped |-> escaped]

\* Mutant: the handler does not cover the overlay, whose exception escapes.
mix_audio_sources_OverlayEscapes(sysF, micF, fault) ==
    Outcome(mix_body(sysF, micF, fault),
            mix_body(sysF, micF, fault).raised /\ fault = "overlay")

\* mix_audio_sources: the try block under `except Exception`, which logs
\* and returns None, so that no exception of the body escapes.
mix_audio_sources(sysF, micF, fault) ==
    Outcome(mix_body(sysF, micF, fault), FALSE)

\* ---------------------------------------------------------- stop_recording
\* Mutant: stop_recording without its idle guard.
stop_recording_Unguarded ==
    /\ ctl = "ready"
    /\ recording' = FALSE
    /\ ctl' = "join"
    /\ last' = [op |-> "stopping"]
    /\ UNCHANGED << config, bufvars, devvars, thrvars >>

\* Mutant: stop_recording that leaves the recording flag set.
stop_recording_KeepsFlag ==
    /\ ctl = "ready"
    /\ IF ~recording
       THEN /\ last' = [op |-> "stop", was_recording |-> FALSE,
                        result |-> None]
            /\ UNCHANGED ctl
       ELSE /\ ctl' = "join"
            /\ last' = [op |-> "stopping"]
    /\ UNCHANGED << config, recording, bufvars, devvars, thrvars >>

\* Entry of stop_recording: the idle guard, else the flag is cleared and
\* the control thread goes on to join the two threads the attributes name.
stop_recording ==
    /\ ctl = "ready"
    /\ IF ~recording
       THEN /\ last' = [op |-> "stop", was_recording |-> FALSE,
                        result |-> None]
            /\ UNCHANGED << recording, ctl >>
       ELSE /\ recording' = FALSE
            /\ ctl' = "join"
            /\ last' = [op |-> "stopping"]
    /\ UNCHANGED << config, bufvars, devvars, thrvars >>

\* The rest of stop_recording: self.system_audio_thread.join() and
\* self.mic_audio_thread.join() return once both threads have ended, then
\* return self.mix_audio_sources().  reading: the threads inside
\* stream.read while the mixer reads the buffers.
stop_join_mix(fault) ==
    /\ ctl = "join"
    /\ system_audio_thread # None
    /\ mic_audio_thread # None
    /\ threads[system_audio_thread[1]].pc = "done"
    /\ threads[mic_audio_thread[1]].pc = "done"
    /\ ctl' = "ready"
    /\ last' = [op |-> "stop", was_recording |-> TRUE,
                result |-> mix_audio_sources(system_audio_frames,
                                             mic_audio_frames, fault).result,
                mix |-> mix_audio_sources(system_audio_frames,
                                          mic_audio_frames, fault),
                system_read |-> system_audio_frames,
                mic_read |-> mic_audio_frames,
                reading |-> {t \in DOMAIN threads : threads[t].pc = "read"}]
    /\ UNCHANGED << config, recording, bufvars, devvars, thrvars >>

\* ---------------------------------------------------------- specification
\* A recorder driven directly through its methods, by no front end.
NoFront == [kind |-> "none"]
NoDual == [kind |-> "none"]
NoVideo == [kind |-> "none"]
NoDisk == [kind |-> "none"]

\* AudioRecorder.__init__
RecorderInit ==
    /\ config \in AudioConfigs
    /\ recording = FALSE
    /\ system_audio_frames = <<>>
    /\ mic_audio_frames = <<>>
    /\ system_audio_device = None
    /\ mic_device = None
    /\ system_device_info = None
    /\ mic_device_info = None
    /\ system_audio_thread = None
    /\ mic_audio_thread = None
    /\ threads = [t \in {} |-> NewThread("system")]
    /\ ctl = "ready"
    /\ last = NoCall

Init ==
    /\ RecorderInit
    /\ front = NoFront
    /\ dual = NoDual
    /\ video = NoVideo
    /\ disk = NoDisk

\* Whether stream.stop_stream() can raise in the behaviours of Spec.
StopStreamRaises == {FALSE}

\* The recorder driven directly: any method at any time, the capture threads
\* in any interleaving.
Next ==
    \/ \E devs \in DeviceLists, raises \in BOOLEAN :
          find_audio_devices(devs, raises) /\ UNCHANGED aux
    \/ start_recording /\ UNCHANGED aux
    \/ stop_recording /\ UNCHANGED aux
    \/ \E fault \in MixFaults : stop_join_mix(fault) /\ UNCHANGED aux
    \/ \E t \in ThreadIds, openRaises \in BOOLEAN, stopRaises \in StopStreamRaises :
          thread_begin(t, openRaises, stopRaises) /\ UNCHANGED aux
    \/ \E t \in ThreadIds, amp \in SystemAmps \cup MicAmps,
          stopRaises \in StopStreamRaises :
          thread_read_ok(t, amp, stopRaises) /\ UNCHANGED aux
    \/ \E t \in ThreadIds, stopRaises \in StopStreamRaises :
          thread_read_error(t, stopRaises) /\ UNCHANGED aux

Spec == Init /\ [][Next]_vars

\* ------------------------------------------------ specification of the scan
\* The device scan alone, on a recorder that is never started, over every
\* enumeration of at most MaxDevices devices drawn from ScanDevices: devices
\* of either role with and without the preferred name, a loopback device
\* without input channels, a device matching both keyword lists and one
\* matching none.
ScanDevices ==
    { Device({"stereo mix"}, 2), Device({"monitor"}, 1),
      Device({"stereo mix"}, 0), Device({"monitor", "webcam"}, 2),
      Device({"hyperx", "mic"}, 1), Device({"mic", "microphone"}, 2),
      Device({}, 2) }

ScanLists ==
    UNION { [1..n -> ScanDevices] : n \in 0..MaxDevices }

ScanInit == Init /\ config.channels = default_channels

ScanNext ==
    \/ \E devs \in ScanLists :
          find_audio_devices(devs, FALSE) /\ UNCHANGED aux
    \/ \E devs \in DeviceLists :
          find_audio_devices(devs, TRUE) /\ UNCHANGED aux

SpecScan == ScanInit /\ [][ScanNext]_vars

\* -------------------------------------------------- the front ends' sessions
\* One recording session as a front end drives it: DualAudioVideoBot.start
\* (main_bot.py) and options 1 and 2 of dual_audio_bot.main.  front is the
\* front end's position (pc), how its wait ended (path: the sleep returned,
\* or KeyboardInterrupt), the value stop_recording returned (audio_file) and
\* what was done downstream (down).  The recorder of dual_audio_bot is
\* DualAudioRecorder, whose scan, start, capture loops, stop and mixer are
\* the steps of AudioRecorder with 2 channels and 6 dB written in, so the
\* sessions run under the default configuration.
FrontEnds == {"main_bot", "option1", "option2"}

recvars == << config, recording, bufvars, devvars, thrvars, ctl, last >>

\* Nothing was handed downstream.
NoDown ==
    [called |-> FALSE, audio |-> None, session_dir |-> FALSE,
     metadata |-> FALSE, transcription |-> FALSE, summary |-> FALSE]

\* process_recording(audio_file, ...): the session directory is made, the
\* audio moved into it and transcribed, the transcript (if any) summarised,
\* session_info.txt written.
process_recording(audio_file, transcribed) ==
    [called |-> TRUE, audio |-> audio_file, session_dir |-> TRUE,
     metadata |-> TRUE, transcription |-> TRUE, summary |-> transcribed]

\* DualAudioVideoBot.process_recordings: transcribe, then summarise the
\* transcript if there is one; no session directory is involved.
process_recordings(audio_file, transcribed) ==
    [called |-> TRUE, audio |-> audio_file, session_dir |-> FALSE,
     metadata |-> FALSE, transcription |-> TRUE, summary |-> transcribed]

\* What the front end does with the value stop_recording returned: every
\* call of the downstream processing sits under `if audio_file:`, and the
\* KeyboardInterrupt handler of option 2 drops the value.
AfterStop(kind, path, audio_file, transcribed) ==
    IF audio_file = None THEN NoDown
    ELSE IF kind = "main_bot" THEN process_recordings(audio_file, transcribed)
    ELSE IF kind = "option2" /\ path = "interrupt" THEN NoDown
    ELSE process_recording(audio_file, transcribed)

FrontInit ==
    /\ RecorderInit
    /\ config.channels = default_channels
    /\ front \in { [kind |-> k, pc |-> "scan", path |-> "none",
                    audio_file |-> None, down |-> NoDown] : k \in FrontEnds }
    /\ dual = NoDual
    /\ video = NoVideo
    /\ disk = NoDisk

\* The scan that precedes the recording (main_bot.py:33; in
\* DualAudioRecorder.__init__ for dual_audio_bot).
fe_scan(devs, raises) ==
    /\ front.pc = "scan"
    /\ find_audio_devices(devs, raises)
    /\ front' = [front EXCEPT !.pc = "start"]
    /\ UNCHANGED backstage

\* recorder.start_recording(), after which the front end sleeps.
fe_start ==
    /\ front.pc = "start"
    /\ start_recording
    /\ front' = [front EXCEPT !.pc = "sleep"]
    /\ UNCHANGED backstage

\* time.sleep(duration * 60) returns; the loop of main_bot never does.
fe_sleep_returns ==
    /\ front.pc = "sleep"
    /\ front.kind # "main_bot"
    /\ front' = [front EXCEPT !.pc = "stop", !.path = "normal"]
    /\ UNCHANGED recvars
    /\ UNCHANGED backstage

\* Ctrl+C during the sleep: control passes to `except KeyboardInterrupt`.
fe_interrupt ==
    /\ front.pc = "sleep"
    /\ front' = [front EXCEPT !.pc = "stop", !.path = "interrupt"]
    /\ UNCHANGED recvars
    /\ UNCHANGED backstage

\* recorder.stop_recording() is entered, on either path.
fe_stop ==
    /\ front.pc = "stop"
    /\ stop_recording
    /\ front' = [front EXCEPT !.pc = "join"]
    /\ UNCHANGED backstage

\* stop_recording returns its value to the front end.
fe_stop_returns(fault) ==
    /\ front.pc = "join"
    /\ stop_join_mix(fault)
    /\ front' = [front EXCEPT !.pc = "returned", !.audio_file = last'.result]
    /\ UNCHANGED backstage

\* The front end's statements after stop_recording.
fe_after_stop(transcribed) ==
    /\ front.pc = "returned"
    /\ front' = [front EXCEPT
                    !.pc = "done",
                    !.down = AfterStop(front.kind, front.path,
                                       front.audio_file, transcribed)]
    /\ UNCHANGED recvars
    /\ UNCHANGED backstage

FrontNext ==
    \/ \E devs \in DeviceLists, raises \in BOOLEAN : fe_scan(devs, raises)
    \/ fe_start
    \/ fe_sleep_returns
    \/ fe_interrupt
    \/ fe_stop
    \/ \E fault \in MixFaults : fe_stop_returns(fault)
    \/ \E transcribed \in BOOLEAN : fe_after_stop(transcribed)
    \/ \E t \in ThreadIds, openRaises \in BOOLEAN, stopRaises \in StopStreamRaises :
          thread_begin(t, openRaises, stopRaises) /\ UNCHANGED aux
    \/ \E t \in ThreadIds, amp \in SystemAmps \cup MicAmps,
          stopRaises \in StopStreamRaises :
          thread_read_ok(t, amp, stopRaises) /\ UNCHANGED aux
    \/ \E t \in ThreadIds, stopRaises \in StopStreamRaises :
          thread_read_error(t, stopRaises) /\ UNCHANGED aux

SpecFront == FrontInit /\ [][FrontNext]_vars

\* ------------------------------------- specification with failing releases
\* The recorder driven directly, as in Spec, where stream.stop_stream() can
\* raise as well (a device that went away fails the read and the stop).
StreamNext ==
    \/ \E devs \in DeviceLists :
          find_audio_devices(devs, FALSE) /\ UNCHANGED aux
    \/ start_recording /\ UNCHANGED aux
    \/ stop_recording /\ UNCHANGED aux
    \/ stop_join_mix("none") /\ UNCHANGED aux
    \/ \E t \in ThreadIds, openRaises, stopRaises \in BOOLEAN :
          thread_begin(t, openRaises, stopRaises) /\ UNCHANGED aux
    \/ \E t \in ThreadIds, amp \in SystemAmps \cup MicAmps, stopRaises \in BOOLEAN :
          thread_read_ok(t, amp, stopRaises) /\ UNCHANGED aux
    \/ \E t \in ThreadIds, stopRaises \in BOOLEAN :
          thread_read_error(t, stopRaises) /\ UNCHANGED aux

SpecStreams == Init /\ [][StreamNext]_vars

\* ------------------------------------------ specification with fairness
\* stream.read returns a chunk when the buffer already holds MaxFrames
\* chunks: the buffer is modelled up to that length only, so the chunk is
\* not kept; the loop test follows as after any read.
thread_read_beyond(t, stopRaises) ==
    /\ t \in DOMAIN threads
    /\ threads[t].pc = "read"
    /\ Len(IF threads[t].src = "system" THEN system_audio_frames
           ELSE mic_audio_frames) >= MaxFrames
    /\ threads' = ThreadsWith(t, LoopTest(threads[t], stopRaises))
    /\ UNCHANGED << config, recording, bufvars, devvars, system_audio_thread,
                    mic_audio_thread, ctl, last >>

\* A step of capture thread t in which no stream.read raises: the driver
\* answers every open and every read, and the scheduler runs the thread.
ThreadRuns(t) ==
    \/ \E openRaises \in BOOLEAN : thread_begin(t, openRaises, FALSE)
    \/ \E amp \in SystemAmps \cup MicAmps : thread_read_ok(t, amp, FALSE)
    \/ thread_read_beyond(t, FALSE)

LiveInit == Init /\ config.channels = default_channels

LiveNext ==
    \/ \E devs \in DeviceLists :
          find_audio_devices(devs, FALSE) /\ UNCHANGED aux
    \/ start_recording /\ UNCHANGED aux
    \/ stop_recording /\ UNCHANGED aux
    \/ stop_join_mix("none") /\ UNCHANGED aux
    \/ \E t \in ThreadIds, openRaises \in BOOLEAN :
          thread_begin(t, openRaises, FALSE) /\ UNCHANGED aux
    \/ \E t \in ThreadIds, amp \in SystemAmps \cup MicAmps :
          thread_read_ok(t, amp, FALSE) /\ UNCHANGED aux
    \/ \E t \in ThreadIds : thread_read_error(t, FALSE) /\ UNCHANGED aux
    \/ \E t \in ThreadIds : thread_read_beyond(t, FALSE) /\ UNCHANGED aux

\* Both joins of stop_recording can return: the step stop_join_mix is
\* enabled.
JoinReady ==
    /\ ctl = "join"
    /\ system_audio_thread # None
    /\ mic_audio_thread # None
    /\ threads[system_audio_thread[1]].pc = "done"
    /\ threads[mic_audio_thread[1]].pc = "done"

\* Fair scheduling: a capture thread that can run does run (weak fairness
\* of the threads' steps), and the control thread returns from joins that
\* can return (weak fairness of stop_join_mix, written with its enabling
\* condition JoinReady).  Nothing forces a read to fail or a method to be
\* called.
SpecLive ==
    /\ LiveInit
    /\ [][LiveNext]_vars
    /\ WF_vars(\E t \in ThreadIds : ThreadRuns(t) /\ UNCHANGED aux)
    /\ \/ []<>~JoinReady
       \/ []<><<stop_join_mix("none") /\ UNCHANGED aux>>_vars

\* ------------------------------------------------------ DualAudioRecorder
\* The recorder of dual_audio_bot.py, whose state is the record dual.  It
\* shares the enumeration of the devices, the drivers' answers and the
\* thread ids with the AudioRecorder it is run beside.
dual_chunk == 1024
dual_channels == 2
dual_microphone_reduction_db == 6

\* DualAudioRecorder.__init__, up to its call of find_audio_devices.  An
\* attribute that names no thread yet is None (hasattr is false).
DualNew ==
    [kind |-> "dual", recording |-> FALSE,
     system_audio_frames |-> <<>>, mic_audio_frames |-> <<>>,
     system_audio_device |-> None, mic_device |-> None,
     system_device_info |-> None, mic_device_info |-> None,
     system_audio_thread |-> None, mic_audio_thread |-> None,
     threads |-> [t \in {} |-> [src |-> "system", pc |-> "begin", ch |-> 0]],
     ctl |-> "ready", returned |-> FALSE, result |-> None,
     mix |-> None]

\* DualAudioRecorder.find_audio_devices: the four attributes are reset,
\* then the scan selects as AudioRecorder's does.
dual_find_audio_devices(d, devs, raises) ==
    LET reset == [d EXCEPT !.system_audio_device = None, !.mic_device = None,
                           !.system_device_info = None,
                           !.mic_device_info = None]
        sysSel == Select(devs, Candidates(devs, 1, TRUE), "stereo mix")
        micSel == Select(devs, Candidates(devs, 1, FALSE), "hyperx")
    IN  IF raises THEN reset
        ELSE [reset EXCEPT
                !.system_audio_device =
                    IF sysSel # None THEN Some(sysSel[1] - 1) ELSE None,
                !.system_device_info =
                    IF sysSel # None THEN Some(devs[sysSel[1]]) ELSE None,
                !.mic_device =
                    IF micSel # None THEN Some(micSel[1] - 1) ELSE None,
                !.mic_device_info =
                    IF micSel # None THEN Some(devs[micSel[1]]) ELSE None]

\* The threads of d once thread t is th: a thread that ended and that no
\* attribute names is gone.
DualThreadsWith(d, t, th) ==
    IF th.pc = "done" /\ Some(t) \notin {d.system_audio_thread, d.mic_audio_thread}
    THEN [u \in DOMAIN d.threads \ {t} |-> d.threads[u]]
    ELSE [u \in DOMAIN d.threads \cup {t} |-> IF u = t THEN th ELSE d.threads[u]]

\* start_system_audio_recording / start_microphone_recording: without a
\* device no thread is made and the attribute is left as it was.
dual_start_source(d, src, t) ==
    IF (IF src = "system" THEN d.system_audio_device ELSE d.mic_device) = None
    THEN d
    ELSE LET named == IF src = "system"
                      THEN [d EXCEPT !.system_audio_thread = Some(t)]
                      ELSE [d EXCEPT !.mic_audio_thread = Some(t)]
         IN  [named EXCEPT !.threads =
                [u \in {v \in DOMAIN d.threads :
                          \/ d.threads[v].pc # "done"
                          \/ Some(v) \in {named.system_audio_thread,
                                          named.mic_audio_thread}}
                       \cup {t} |->
                    IF u = t THEN [src |-> src, pc |-> "begin", ch |-> 0]
                    ELSE d.threads[u]]]

\* DualAudioRecorder.start_recording; s and m are the ids of the threads
\* it starts.
dual_start_recording(d, s, m) ==
    dual_start_source(
        dual_start_source([d EXCEPT !.recording = TRUE,
                                    !.system_audio_frames = <<>>,
                                    !.mic_audio_frames = <<>>,
                                    !.returned = FALSE],
                          "system", s),
        "mic", m)

\* channels = min(2, device_info['maxInputChannels'])
DualStreamChannels(d, src) ==
    Min(dual_channels,
        (IF src = "system" THEN d.system_device_info
         ELSE d.mic_device_info)[1].maxInputChannels)

\* `while self.recording` of record_system / record_mic.
DualLoopTest(d, th) ==
    IF d.recording THEN [th EXCEPT !.pc = "read"]
    ELSE [th EXCEPT !.pc = "done", !.ch = 0]

\* record_system / record_mic up to the first loop test.
dual_thread_begin(d, t, openRaises) ==
    IF t \notin DOMAIN d.threads \/ d.threads[t].pc # "begin" THEN d
    ELSE [d EXCEPT !.threads =
            DualThreadsWith(d, t,
                IF openRaises THEN [d.threads[t] EXCEPT !.pc = "done"]
                ELSE DualLoopTest(d, [d.threads[t] EXCEPT
                        !.ch = DualStreamChannels(d, d.threads[t].src)]))]

\* stream.read(chunk) returns and the data is appended.
dual_thread_read_ok(d, t, amp) ==
    IF t \notin DOMAIN d.threads \/ d.threads[t].pc # "read" THEN d
    ELSE LET chunk == [by |-> t, ch |-> d.threads[t].ch, amp |-> amp]
             after == DualThreadsWith(d, t, DualLoopTest(d, d.threads[t]))
         IN  IF d.threads[t].src = "system"
             THEN [d EXCEPT !.system_audio_frames = Append(@, chunk),
                            !.threads = after]
             ELSE [d EXCEPT !.mic_audio_frames = Append(@, chunk),
                            !.threads = after]

\* stream.read raises: break, then the stream is released.
dual_thread_read_error(d, t) ==
    IF t \notin DOMAIN d.threads \/ d.threads[t].pc # "read" THEN d
    ELSE [d EXCEPT !.threads =
            DualThreadsWith(d, t, [d.threads[t] EXCEPT !.pc = "done",
                                                       !.ch = 0])]

\* The temporary wave files of DualAudioRecorder.mix_audio_sources are
\* written with setnchannels(2).
DualChunkBytes(c) == dual_chunk * c.ch * sample_width

RECURSIVE DualDecode(_)
DualDecode(frames) ==
    IF frames = <<>> THEN <<>>
    ELSE << [amp |-> Head(frames).amp,
             n |-> DualChunkBytes(Head(frames))
                      \div (dual_channels * sample_width)] >>
         \o DualDecode(Tail(frames))

DualDecodeSource(frames) ==
    IF frames # <<>> THEN Some(DualDecode(frames)) ELSE None

\* Mutant: the microphone is overlaid at full level.
DualMixBoth_NoReduction(system_audio, mic_audio) ==
    LET min_length == Min(LenMs(system_audio), LenMs(mic_audio))
    IN  Overlay(Slice(system_audio, min_length), Slice(mic_audio, min_length))

\* system_audio.overlay(mic_audio - 6) after both were cut to min_length.
DualMixBoth(system_audio, mic_audio) ==
    LET min_length == Min(LenMs(system_audio), LenMs(mic_audio))
    IN  Overlay(Slice(system_audio, min_length),
                ApplyGain(Slice(mic_audio, min_length),
                          dual_microphone_reduction_db))

DualChooseMix(system_audio, mic_audio) ==
    IF Truthy(system_audio) /\ Truthy(mic_audio)
    THEN [source |-> "both",
          mixed |-> Some(DualMixBoth(system_audio[1], mic_audio[1]))]
    ELSE IF Truthy(system_audio)
    THEN [source |-> "system", mixed |-> system_audio]
    ELSE IF Truthy(mic_audio)
    THEN [source |-> "mic", mixed |-> mic_audio]
    ELSE [source |-> "none", mixed |-> None]

\* DualAudioRecorder.mix_audio_sources: its try block and the handler that
\* returns None.
dual_mix_audio_sources(sysF, micF, fault) ==
    LET system_audio == DualDecodeSource(sysF)
        mic_audio == DualDecodeSource(micF)
        sysTemp == IF sysF # <<>> THEN {"temp_system"} ELSE {}
        micTemp == IF micF # <<>> THEN {"temp_mic"} ELSE {}
        both == Truthy(system_audio) /\ Truthy(mic_audio)
        chosen == DualChooseMix(system_audio, mic_audio)
    IN  Outcome(
          IF sysF # <<>> /\ fault = "system_decode"
          THEN Raised(sysTemp, sysTemp)
          ELSE IF micF # <<>> /\ fault = "mic_decode"
          THEN Raised(sysTemp \cup micTemp, micTemp)
          ELSE IF both /\ (\/ fault = "overlay"
                           \/ MixBothRaises(system_audio[1], mic_audio[1]))
          THEN Raised(sysTemp \cup micTemp, {})
          ELSE IF chosen.mixed = None
          THEN [result |-> None, mixed |-> None, source |-> chosen.source,
                raised |-> FALSE, created |-> sysTemp \cup micTemp,
                left |-> {}]
          ELSE IF fault = "export"
          THEN Raised(sysTemp \cup micTemp, {})
          ELSE [result |-> Some("mixed_audio"), mixed |-> chosen.mixed,
                source |-> chosen.source, raised |-> FALSE,
                created |-> sysTemp \cup micTemp \cup {"mixed_audio"},
                left |-> {"mixed_audio"}],
          FALSE)

\* Entry of DualAudioRecorder.stop_recording.
dual_stop_recording(d) ==
    IF ~d.recording
    THEN [d EXCEPT !.returned = TRUE, !.result = None, !.mix = None]
    ELSE [d EXCEPT !.recording = FALSE, !.ctl = "join", !.returned = FALSE]

\* The joins under hasattr can all return.
DualJoinReady(d) ==
    /\ d.ctl = "join"
    /\ \A attr \in {d.system_audio_thread, d.mic_audio_thread} :
          attr # None => d.threads[attr[1]].pc = "done"

\* The rest of DualAudioRecorder.stop_recording: joins, then the mix.
dual_stop_join_mix(d, fault) ==
    LET out == dual_mix_audio_sources(d.system_audio_frames,
                                      d.mic_audio_frames, fault)
    IN  [d EXCEPT !.ctl = "ready", !.returned = TRUE,
                  !.result = out.result, !.mix = Some(out)]

\* ------------------------------------- specification of the two recorders
\* An AudioRecorder at the default configuration and a DualAudioRecorder
\* that meet the same devices and the same events: one scan (the one of
\* DualAudioRecorder.__init__), then starts, stops and thread steps with
\* the same answers of the drivers.
PairInit ==
    /\ RecorderInit
    /\ config.channels = default_channels
    /\ config.microphone_reduction_db = default_microphone_reduction_db
    /\ front = NoFront
    /\ dual = DualNew
    /\ video = NoVideo
    /\ disk = NoDisk

PairNext ==
    \/ \E devs \in DeviceLists, raises \in BOOLEAN :
          /\ last = NoCall
          /\ find_audio_devices(devs, raises)
          /\ dual' = dual_find_audio_devices(dual, devs, raises)
          /\ UNCHANGED << front, video, disk >>
    \/ /\ start_recording
       /\ dual' = dual_start_recording(dual,
                     Lowest(ThreadIds \ Running),
                     Lowest(ThreadIds \ (Running
                                \cup {Lowest(ThreadIds \ Running)})))
       /\ UNCHANGED << front, video, disk >>
    \/ /\ stop_recording
       /\ dual' = dual_stop_recording(dual)
       /\ UNCHANGED << front, video, disk >>
    \/ \E fault \in MixFaults :
          /\ stop_join_mix(fault)
          /\ DualJoinReady(dual)
          /\ dual' = dual_stop_join_mix(dual, fault)
          /\ UNCHANGED << front, video, disk >>
    \/ \E t \in ThreadIds, openRaises \in BOOLEAN :
          /\ thread_begin(t, openRaises, FALSE)
          /\ dual' = dual_thread_begin(dual, t, openRaises)
          /\ UNCHANGED << front, video, disk >>
    \/ \E t \in ThreadIds, amp \in SystemAmps \cup MicAmps :
          /\ thread_read_ok(t, amp, FALSE)
          /\ dual' = dual_thread_read_ok(dual, t, amp)
          /\ UNCHANGED << front, video, disk >>
    \/ \E t \in ThreadIds :
          /\ thread_read_error(t, FALSE)
          /\ dual' = dual_thread_read_error(dual, t)
          /\ UNCHANGED << front, video, disk >>

SpecPair == PairInit /\ [][PairNext]_vars

\* ---------------------------------------------------- the processing flows
\* What happens to the files once a recording exists: Transcriber.transcribe
\* (src/src/transcription.py), process_existing_recording and the `auto`
\* command (cli_tools.py), process_recording (process_recording.py) and
\* SessionManager (src/src/session_manager.py).  disk is the working
\* directory (cwd: file name -> content), the session directories under
\* sessions/ (name -> what the directory holds), the clock in seconds and
\* the last flow that ran.
MaxClock == 2

\* A file name is the sequence of its pieces, the extension last;
\* str.replace(old, new) replaces every piece equal to old.
Replace(name, old, new) ==
    [i \in DOMAIN name |-> IF name[i] = old THEN new ELSE name[i]]

AudioNames == { <<"mixed_audio", ".wav">>, <<"talk", ".mp3">> }
VideoNames == { <<"dual_recording", ".avi">> }

AudioContent(name) == [kind |-> "audio", of |-> name]
VideoContent(name) == [kind |-> "video", of |-> name]
TextContent(about) == [kind |-> "text", of |-> about]

Write(files, name, content) ==
    [n \in DOMAIN files \cup {name} |-> IF n = name THEN content ELSE files[n]]
Remove(files, name) == [n \in DOMAIN files \ {name} |-> files[n]]

Extension(name) == name[Len(name)]

\* find_audio_video_files: glob("*.wav") + glob("*.mp3"), first element (a
\* glob's order is the directory's, so any .wav when there is one, else
\* any .mp3); the same for .avi / .mp4.  The set of pairs it can return.
FirstOf(cwd, exts) ==
    LET hits(e) == {n \in DOMAIN cwd : Extension(n) = e}
    IN  IF hits(exts[1]) # {} THEN {Some(n) : n \in hits(exts[1])}
        ELSE IF hits(exts[2]) # {} THEN {Some(n) : n \in hits(exts[2])}
        ELSE {None}

find_audio_video_files(cwd) ==
    FirstOf(cwd, <<".wav", ".mp3">>) \X FirstOf(cwd, <<".avi", ".mp4">>)

\* Transcriber.transcribe: None when the file is missing or Whisper raises;
\* else the text is written to audio_file.replace(".wav", "_transcript.txt").
transcribe(cwd, audio_file, raises) ==
    IF audio_file \notin DOMAIN cwd \/ raises
    THEN [cwd |-> cwd, result |-> None]
    ELSE LET transcript_file == Replace(audio_file, ".wav", "_transcript.txt")
         IN  [cwd |-> Write(cwd, transcript_file,
                            TextContent(cwd[audio_file])),
              result |-> Some(transcript_file)]

\* Summarizer.generate_summary: the summary file in the working directory,
\* or None when Ollama raises.
generate_summary(cwd, transcript, clock, ok) ==
    IF ok
    THEN [cwd |-> Write(cwd, <<"summary", clock, ".txt">>,
                        [kind |-> "summary", of |-> transcript]),
          result |-> Some(<<"summary", clock, ".txt">>)]
    ELSE [cwd |-> cwd, result |-> None]

\* A session directory just made.
EmptySession ==
    [audio |-> None, video |-> None, transcript |-> None, summary |-> None,
     info_json |-> None, info_txt |-> FALSE]

\* os.makedirs(session_path, exist_ok=True)
MakeDir(sessions, name) ==
    IF name \in DOMAIN sessions THEN sessions
    ELSE [n \in DOMAIN sessions \cup {name} |->
             IF n = name THEN EmptySession ELSE sessions[n]]

\* create_session_name / the f-string of process_recording: the recording
\* type and the timestamp, to the second.
create_session_name(clock) == <<"GoogleMeet", clock>>

\* One shutil.move of organize_files: the file, if it exists, leaves the
\* working directory for the session directory.
Organize(st, file, slot) ==
    IF file # None /\ file[1] \in DOMAIN st.cwd
    THEN [cwd |-> Remove(st.cwd, file[1]),
          session |-> [st.session EXCEPT ![slot] = Some(st.cwd[file[1]])]]
    ELSE st

\* SessionManager.organize_files: audio, video, transcript, summary, in
\* that order.
organize_files(cwd, session, audio_file, video_file, transcript_file, summary_file) ==
    Organize(Organize(Organize(Organize([cwd |-> cwd, session |-> session],
                                        audio_file, "audio"),
                               video_file, "video"),
                      transcript_file, "transcript"),
             summary_file, "summary")

NoFlow == [op |-> "none"]

\* process_existing_recording(audio_file, video_file): create_session,
\* transcribe, generate_summary, organize_files, create_session_info
\* (session_info.json with created_at).
process_existing_recording(d, audio_file, video_file, raises, summaryOk) ==
    LET name == create_session_name(d.clock)
        made == MakeDir(d.sessions, name)
        t == transcribe(d.cwd, audio_file, raises)
        g == IF t.result # None
             THEN generate_summary(t.cwd, t.cwd[t.result[1]], d.clock,
                                   summaryOk)
             ELSE [cwd |-> t.cwd, result |-> None]
        o == organize_files(g.cwd, made[name], Some(audio_file), video_file,
                            t.result, g.result)
        info == [created_at |-> d.clock]
    IN  [d EXCEPT
           !.cwd = o.cwd,
           !.sessions = [made EXCEPT ![name] =
                            [o.session EXCEPT !.info_json = Some(info)]],
           !.last = [op |-> "process_existing_recording",
                     session |-> name,
                     audio_file |-> audio_file,
                     audio_before |-> IF audio_file \in DOMAIN d.cwd
                                      THEN Some(d.cwd[audio_file]) ELSE None,
                     audio_after |-> IF audio_file \in DOMAIN t.cwd
                                     THEN Some(t.cwd[audio_file]) ELSE None,
                     transcript_file |-> t.result]]

\* transcribe_audio of process_recording.py: whatever the source, the text
\* is written to <session_dir>/transcript.txt.
transcribe_audio(session, source, ok) ==
    IF ok
    THEN [session |-> [session EXCEPT !.transcript = Some(TextContent(source))],
          result |-> Some("transcript.txt")]
    ELSE [session |-> session, result |-> None]

\* process_recording(audio_file, video_file): the session directory, the
\* two moves, the transcription of the video's audio and of the mixed
\* audio, the summary of the file primary_transcript_path names, and
\* session_info.txt.
process_recording_flow(d, audio_file, video_file, extractOk, videoOk, mixedOk, summaryOk) ==
    LET name == create_session_name(d.clock)
        made == MakeDir(d.sessions, name)
        moved == Organize(Organize([cwd |-> d.cwd, session |-> made[name]],
                                   audio_file, "audio"),
                          video_file, "video")
        new_audio == audio_file # None /\ audio_file[1] \in DOMAIN d.cwd
        new_video == video_file # None /\ video_file[1] \in DOMAIN d.cwd
        v == IF new_video /\ extractOk
             THEN transcribe_audio(moved.session, "video", videoOk)
             ELSE [session |-> moved.session, result |-> None]
        m == IF new_audio
             THEN transcribe_audio(v.session, "mixed", mixedOk)
             ELSE [session |-> v.session, result |-> None]
        primary == IF v.result # None THEN v.result ELSE m.result
        text == m.session.transcript
    IN  [d EXCEPT
           !.cwd = moved.cwd,
           !.sessions = [made EXCEPT ![name] =
                [m.session EXCEPT
                    !.summary = IF primary # None /\ summaryOk
                                THEN Some([kind |-> "summary", of |-> text[1]])
                                ELSE None,
                    !.info_txt = TRUE]],
           !.last = [op |-> "process_recording", session |-> name,
                     video_transcript |-> v.result,
                     mixed_transcript |-> m.result,
                     summarised |-> IF primary # None THEN text ELSE None]]

\* The directories list_sessions keeps: those with a session_info.json.
Listed(sessions) == {n \in DOMAIN sessions : sessions[n].info_json # None}

\* sorted(..., key=created_at, reverse=True) over the set S of names.
RECURSIVE SortNewestFirst(_, _)
SortNewestFirst(sessions, S) ==
    IF S = {} THEN <<>>
    ELSE LET newest == CHOOSE n \in S : \A o \in S :
                          sessions[o].info_json[1].created_at
                             <= sessions[n].info_json[1].created_at
         IN  << [name |-> newest, info |-> sessions[newest].info_json[1]] >>
             \o SortNewestFirst(sessions, S \ {newest})

\* SessionManager.list_sessions
list_sessions(sessions) == SortNewestFirst(sessions, Listed(sessions))

disk_rest == << recvars, front, dual, video >>

ProcessingInit ==
    /\ RecorderInit
    /\ config.channels = default_channels
    /\ config.microphone_reduction_db = default_microphone_reduction_db
    /\ front = NoFront
    /\ dual = NoDual
    /\ video = NoVideo
    /\ \E S \in SUBSET (AudioNames \cup VideoNames) :
          disk = [kind |-> "disk",
                  cwd |-> [n \in S |-> IF n \in AudioNames
                                       THEN AudioContent(n)
                                       ELSE VideoContent(n)],
                  sessions |-> [n \in {} |-> EmptySession],
                  clock |-> 0,
                  last |-> NoFlow]

\* A second passes.
disk_tick ==
    /\ disk.clock < MaxClock
    /\ disk' = [disk EXCEPT !.clock = @ + 1]
    /\ UNCHANGED disk_rest

\* The `auto` command of cli_tools: the files find_audio_video_files
\* returns are processed.
cli_auto(raises, summaryOk) ==
    /\ \E found \in find_audio_video_files(disk.cwd) :
          /\ found[1] # None
          /\ disk' = process_existing_recording(disk, found[1][1], found[2],
                                                raises, summaryOk)
    /\ UNCHANGED disk_rest

\* dual_audio_bot: process_recording on the mixed audio stop_recording
\* returned and the video of the recording.
bot_process_recording(audio_file, video_file, extractOk, videoOk, mixedOk, summaryOk) ==
    /\ audio_file \in DOMAIN disk.cwd
    /\ Extension(audio_file) = ".wav"
    /\ video_file \in {None} \cup {Some(n) : n \in VideoNames}
    /\ disk' = process_recording_flow(disk, Some(audio_file), video_file,
                                      extractOk, videoOk, mixedOk, summaryOk)
    /\ UNCHANGED disk_rest

ProcessingNext ==
    \/ disk_tick
    \/ \E raises, summaryOk \in BOOLEAN : cli_auto(raises, summaryOk)
    \/ \E audio_file \in AudioNames,
          video_file \in {None} \cup {Some(n) : n \in VideoNames},
          extractOk, videoOk, mixedOk, summaryOk \in BOOLEAN :
          bot_process_recording(audio_file, video_file, extractOk, videoOk,
                                mixedOk, summaryOk)

SpecProcessing == ProcessingInit /\ [][ProcessingNext]_vars

\* ----------------------------------------------------------- VideoRecorder
\* The screen recorder of src/src/video_processing.py.  Every VideoWriter
\* start_recording creates is an entry of writers, every thread it starts
\* an entry of threads; the attributes video_writer and screen_thread name
\* the latest of each.  A writer records how many frames it was handed and
\* whether one of them came after its release.

\* A cv2.VideoWriter just constructed.
NewWriter == [released |-> FALSE, frames |-> 0, late |-> FALSE]

\* VideoRecorder.__init__.
VideoNew ==
    [kind |-> "video",
     recording |-> FALSE,
     video_writer |-> None,
     screen_thread |-> None,
     writers |-> <<>>,
     threads |-> <<>>,
     ctl |-> "idle",
     returned |-> "none"]

video_rest == << recvars, front, dual, disk >>

\* start_recording: the flag is set, a new writer and a new thread replace
\* the ones the attributes named; nothing is tested first.
video_start_recording ==
    /\ video.ctl = "idle"
    /\ Len(video.threads) < MaxThreads
    /\ video' = [video EXCEPT
                    !.recording = TRUE,
                    !.writers = Append(@, NewWriter),
                    !.video_writer = Some(Len(video.writers) + 1),
                    !.threads = Append(@, [pc |-> "test", frames |-> 0]),
                    !.screen_thread = Some(Len(video.threads) + 1),
                    !.returned = "start"]
    /\ UNCHANGED video_rest

\* _record_screen, `while self.recording`: the thread goes on to take a
\* screenshot or leaves the loop and ends.  A thread takes at most
\* MaxFrames screenshots.
record_screen_test(t) ==
    /\ t \in DOMAIN video.threads
    /\ video.threads[t].pc = "test"
    /\ video.recording => video.threads[t].frames < MaxFrames
    /\ video' = [video EXCEPT
                    !.threads[t].pc = IF video.recording THEN "write"
                                      ELSE "done"]
    /\ UNCHANGED video_rest

\* _record_screen, `self.video_writer.write(frame)`: the frame goes to the
\* writer the attribute names at this moment.
record_screen_write(t) ==
    /\ t \in DOMAIN video.threads
    /\ video.threads[t].pc = "write"
    /\ LET w == video.video_writer[1]
       IN  video' = [video EXCEPT
                        !.writers[w].frames = @ + 1,
                        !.writers[w].late = @ \/ video.writers[w].released,
                        !.threads[t].pc = "test",
                        !.threads[t].frames = @ + 1]
    /\ UNCHANGED video_rest

\* _record_screen, `except Exception`: the screenshot raised, the thread
\* logs and ends.
record_screen_error(t) ==
    /\ t \in DOMAIN video.threads
    /\ video.threads[t].pc = "write"
    /\ video' = [video EXCEPT !.threads[t].pc = "done"]
    /\ UNCHANGED video_rest

\* stop_recording up to the join: False when nothing is recording,
\* otherwise the flag is cleared and the caller waits for screen_thread.
video_stop_recording ==
    /\ video.ctl = "idle"
    /\ video.kind = "video"
    /\ IF ~video.recording
       THEN video' = [video EXCEPT !.returned = "stop_false"]
       ELSE video' = [video EXCEPT !.recording = FALSE, !.ctl = "join"]
    /\ UNCHANGED video_rest

\* stop_recording from the join on: screen_thread has ended, the writer the
\* attribute names is released and True is returned.
video_stop_join_release ==
    /\ video.ctl = "join"
    /\ \/ video.screen_thread = None
       \/ video.threads[video.screen_thread[1]].pc = "done"
    /\ video' = [video EXCEPT
                    !.writers = IF video.video_writer = None THEN @
                                ELSE [@ EXCEPT ![video.video_writer[1]]
                                                  .released = TRUE],
                    !.ctl = "idle",
                    !.returned = "stop_true"]
    /\ UNCHANGED video_rest

VideoInit ==
    /\ RecorderInit
    /\ config.channels = default_channels
    /\ config.microphone_reduction_db = default_microphone_reduction_db
    /\ front = NoFront
    /\ dual = NoDual
    /\ disk = NoDisk
    /\ video = VideoNew

VideoNext ==
    \/ video_start_recording
    \/ video_stop_recording
    \/ video_stop_join_release
    \/ \E t \in 1..MaxThreads : record_screen_test(t)
    \/ \E t \in 1..MaxThreads : record_screen_write(t)
    \/ \E t \in 1..MaxThreads : record_screen_error(t)

SpecVideo == VideoInit /\ [][VideoNext]_vars

\* ------------------------------------------------------------------ claims
CurrentSystem == threads[system_audio_thread[1]]
CurrentMic == threads[mic_audio_thread[1]]

\* A stop_recording call that found a recording in progress has returned.
StopReturned == last.op = "stop" /\ last.was_recording

\* The chunks of buffer frames that thread t appended.
ChunksBy(frames, t) == {i \in DOMAIN frames : frames[i].by = t}

\* The optional segment seg is the buffer frames decoded and nothing else:
\* one run per chunk, of the chunk's amplitude, as long as the chunk's
\* bytes make frames of config.audio.channels 16-bit samples.
Verbatim(seg, frames) ==
    /\ seg # None
    /\ Len(seg[1]) = Len(frames)
    /\ \A i \in DOMAIN frames :
          /\ seg[1][i].amp = frames[i].amp
          /\ seg[1][i].n * config.channels * sample_width
                = chunk_size * frames[i].ch * sample_width

\* The duration in ms of the waveform a buffer decodes to.
RECURSIVE BufferBytes(_)
BufferBytes(frames) ==
    IF frames = <<>> THEN 0
    ELSE chunk_size * Head(frames).ch * sample_width + BufferBytes(Tail(frames))

DecodedMs(frames) ==
    LET n == BufferBytes(frames) \div (config.channels * sample_width)
    IN  (2 * 1000 * n + sample_rate) \div (2 * sample_rate)

\* The sample of waveform w at frame p (0-based); silence past its end.
RECURSIVE SampleAt(_, _)
SampleAt(w, p) ==
    IF w = <<>> THEN 0
    ELSE IF p < Head(w).n THEN Head(w).amp
    ELSE SampleAt(Tail(w), p - Head(w).n)

\* The frame at which run k of w starts.
RECURSIVE RunStart(_, _)
RunStart(w, k) == IF k <= 1 THEN 0 ELSE RunStart(w, k - 1) + w[k - 1].n

\* C1: start_recording is only effective from Idle: a call made while a
\* recording is in progress launches no capture thread and does not reset
\* system_audio_frames or mic_audio_frames.
C1_StartOnlyFromIdle ==
    [][(recording /\ start_recording)
         => (UNCHANGED bufvars /\ UNCHANGED thrvars)]_vars

\* C2: mix_audio_sources reads the two buffers only when no capture thread
\* that can still append to them is running: the mixer never reads while a
\* thread is inside stream.read.
C2_MixReadsAfterEveryThreadEnded ==
    StopReturned => last.reading = {}

C4_IdleStopIsNoOp ==
    [][(~recording /\ stop_recording)
         => /\ UNCHANGED << config, recording, bufvars, devvars, thrvars, ctl >>
            /\ last' = [op |-> "stop", was_recording |-> FALSE,
                        result |-> None]]_vars

\* C4 witness: an idle stop_recording returned on a recorder that still
\* holds the chunks of an earlier recording.
C4_Witness ==
    /\ last.op = "stop"
    /\ ~last.was_recording
    /\ mic_audio_frames # <<>>
    /\ ctl = "ready"

\* C5: when a stop_recording call made while Recording has returned, the
\* recorder is Idle, whatever the mixer did (file, no audio, caught error).
C5_StopLeavesIdle ==
    StopReturned => (~recording /\ ctl = "ready")

\* C5 witness: stop_recording returned after the mixer raised.
C5_Witness ==
    StopReturned /\ last.mix.raised /\ ~recording

\* C6: when both buffers are empty the mixer returns None and creates no
\* file: no mixed_audio file, no temporary file, no mixed track.
C6_NoSourceNoFile ==
    (StopReturned /\ last.system_read = <<>> /\ last.mic_read = <<>>)
        => /\ last.result = None
           /\ last.mix.mixed = None
           /\ last.mix.created = {}
           /\ last.mix.left = {}

\* C6 witness: a recording with no device found was stopped.
C6_Witness ==
    /\ StopReturned
    /\ system_audio_device = None
    /\ mic_device = None
    /\ last.system_read = <<>>
    /\ last.mic_read = <<>>

\* C7: when exactly one buffer is non-empty (and the mixer raised nothing)
\* the mixed track is that buffer's decoded waveform unmodified, for a lone
\* system buffer and for a lone microphone buffer alike.
C7_SingleSourceVerbatim ==
    (StopReturned /\ ~last.mix.raised)
        => /\ (last.system_read # <<>> /\ last.mic_read = <<>>)
                => (Verbatim(last.mix.mixed, last.system_read)
                    /\ last.result # None)
           /\ (last.system_read = <<>> /\ last.mic_read # <<>>)
                => (Verbatim(last.mix.mixed, last.mic_read)
                    /\ last.result # None)

\* C7 witness: a lone microphone buffer was mixed under the default 6 dB.
C7_Witness ==
    /\ StopReturned
    /\ last.system_read = <<>>
    /\ last.mic_read # <<>>
    /\ last.result # None
    /\ config.microphone_reduction_db = default_microphone_reduction_db

\* C8: the mixed track lasts min(system duration, microphone duration) when
\* both buffers are non-empty, and the lone source's duration otherwise.
C8_MixedDuration ==
    (StopReturned /\ last.mix.mixed # None)
        => LenMs(last.mix.mixed[1]) =
              IF last.system_read # <<>> /\ last.mic_read # <<>>
              THEN Min(DecodedMs(last.system_read), DecodedMs(last.mic_read))
              ELSE IF last.system_read # <<>>
              THEN DecodedMs(last.system_read)
              ELSE DecodedMs(last.mic_read)

\* C8 witness: a two-source mix whose system waveform is longer than its
\* microphone waveform.
C8_Witness ==
    /\ StopReturned
    /\ last.mix.source = "both"
    /\ last.mix.mixed # None
    /\ DecodedMs(last.system_read) > DecodedMs(last.mic_read)
    /\ DecodedMs(last.mic_read) > 0

C10_ChannelsClamped ==
    \A t \in DOMAIN threads :
        threads[t].stream = "open" =>
            LET maxIn == InfoOf(threads[t].src)[1].maxInputChannels
            IN  /\ threads[t].ch <= maxIn
                /\ threads[t].ch <= config.channels
                /\ threads[t].ch \in {maxIn, config.channels}

\* C10 witness: 2 channels configured, a 1-channel device, 1 channel opened.
C10_Witness ==
    \E t \in DOMAIN threads :
        /\ threads[t].stream = "open"
        /\ config.channels = 2
        /\ InfoOf(threads[t].src)[1].maxInputChannels = 1
        /\ threads[t].ch = 1

\* The input-capable positions of devs whose name contains one of kws.
Matching(devs, kws) ==
    {i \in DOMAIN devs : devs[i].maxInputChannels > 0 /\ devs[i].name \cap kws # {}}

\* The positions the scan takes for system candidates, for microphone
\* candidates, and those among them that carry the preferred name.
SystemPositions(devs) == Matching(devs, system_keywords)
MicPositions(devs) == Matching(devs, mic_keywords) \ SystemPositions(devs)
Preferred(devs, S, name) == {i \in S : name \in devs[i].name}

\* The position the tie-break names among S: the first with the preferred
\* name if there is one, else the first.
Expected(devs, S, name) ==
    IF Preferred(devs, S, name) # {} THEN Lowest(Preferred(devs, S, name))
    ELSE Lowest(S)

\* C11: after a scan that enumerated last.devs, the system device is the
\* first input-capable device named 'stereo mix' if there is one, else the
\* first input-capable device matching a system keyword; the microphone is
\* the first microphone candidate named 'hyperx' if there is one, else the
\* first microphone candidate; a device without input channels is never
\* selected.
C11_SelectionRule ==
    /\ (last.op = "scan" /\ ~last.raised) =>
          LET devs == last.devs
              sys == SystemPositions(devs)
              mic == MicPositions(devs)
          IN  /\ sys # {} =>
                    /\ system_audio_device
                          = Some(Expected(devs, sys, "stereo mix") - 1)
                    /\ system_device_info
                          = Some(devs[Expected(devs, sys, "stereo mix")])
              /\ mic # {} =>
                    /\ mic_device = Some(Expected(devs, mic, "hyperx") - 1)
                    /\ mic_device_info
                          = Some(devs[Expected(devs, mic, "hyperx")])
    /\ system_device_info # None => system_device_info[1].maxInputChannels > 0
    /\ mic_device_info # None => mic_device_info[1].maxInputChannels > 0

\* C11 witness: the scan passed over an earlier system candidate and an
\* input-less 'stereo mix' device to select a later 'stereo mix' device, or
\* over an earlier microphone to select a later 'hyperx' one.
C11_Witness ==
    /\ last.op = "scan"
    /\ ~last.raised
    /\ Len(last.devs) >= 2
    /\ \/ /\ system_audio_device = Some(1)
          /\ last.devs[1].name \cap system_keywords # {}
          /\ "stereo mix" \in last.devs[2].name
       \/ /\ mic_device = Some(1)
          /\ 1 \in MicPositions(last.devs)
          /\ "hyperx" \in last.devs[2].name

\* C12: after a scan that raised nothing, the system device is None when no
\* device of that scan was a system candidate and the microphone is None
\* when none was a microphone candidate, on a first scan and on a rescan.
C12_NoMatchMeansNone ==
    (last.op = "scan" /\ ~last.raised) =>
        /\ SystemPositions(last.devs) = {} => system_audio_device = None
        /\ MicPositions(last.devs) = {} => mic_device = None

\* C13: an error raised while decoding, overlaying or exporting inside
\* mix_audio_sources does not escape it: the call returns None, and the
\* stop_recording that made it returns to its caller.
C13_MixErrorsCaught ==
    StopReturned =>
        /\ ~last.mix.escaped
        /\ last.mix.raised => (last.result = None /\ ctl = "ready")

\* C13 witness: stop_recording returned None after an error in a mix of two
\* non-empty buffers.
C13_Witness ==
    /\ StopReturned
    /\ last.mix.raised
    /\ last.system_read # <<>>
    /\ last.mic_read # <<>>
    /\ last.result = None

\* The front end has finished the statements that follow stop_recording.
SessionDone == front.kind # "none" /\ front.pc = "done"

\* C14: a recording interrupted by KeyboardInterrupt is stopped through
\* stop_recording, and the audio stop_recording returned is handed to the
\* downstream processing.
C14_InterruptedAudioProcessed ==
    (SessionDone /\ front.path = "interrupt") =>
        /\ StopReturned
        /\ front.audio_file # None =>
              (front.down.called /\ front.down.audio = front.audio_file)

\* C15: when stop_recording returned no audio, nothing is transcribed or
\* summarised, and the session directory and its metadata file exist.
C15_NoAudioSessionFinalized ==
    (SessionDone /\ front.audio_file = None) =>
        /\ ~front.down.transcription
        /\ ~front.down.summary
        /\ front.down.session_dir
        /\ front.down.metadata

\* C16: a capture thread that has ended has closed the stream it opened,
\* whichever way it left: the loop test, a read error, or an error raised
\* after the open (stop_stream included).
C16_OpenedStreamsClosed ==
    \A t \in DOMAIN threads :
        threads[t].pc = "done" => threads[t].stream \in {"none", "closed"}

\* seq begins with the sequence pre.
IsPrefix(pre, seq) ==
    /\ Len(pre) <= Len(seq)
    /\ \A i \in DOMAIN pre : seq[i] = pre[i]

\* The thread an attribute names ended after appending chunks while no
\* stop_recording had been called since the start: its loop was left
\* through a stream.read that raised.
ReadFailedAfterChunks(attr) ==
    /\ attr # None
    /\ last.op = "start"
    /\ threads[attr[1]].pc = "done"
    /\ threads[attr[1]].nread > 0

StartStep ==
    /\ system_audio_thread' # None
    /\ threads'[system_audio_thread'[1]].pc = "begin"
    /\ system_audio_thread' = system_audio_thread =>
          threads[system_audio_thread[1]].pc # "begin"

\* The thread of one source never found a device: it never opened a stream,
\* appended nothing and has terminated once it ran.
NoOpThread(attr, device, frames) ==
    (attr # None /\ device = None) =>
        /\ frames = <<>>
        /\ threads[attr[1]].stream = "none"
        /\ threads[attr[1]].nread = 0
        /\ ~threads[attr[1]].failed
        /\ threads[attr[1]].pc \in {"begin", "done"}

\* C18: start_recording from Idle leaves both buffers empty, recording set
\* and two new capture threads launched, whatever the devices are; a
\* thread whose device is None opens no stream, appends nothing and ends,
\* its buffer stays empty, and stop_recording returns only after both
\* threads of the session have ended.
C18_StartLaunchesBoth ==
    /\ [](/\ NoOpThread(system_audio_thread, system_audio_device,
                        system_audio_frames)
          /\ NoOpThread(mic_audio_thread, mic_device, mic_audio_frames)
          /\ StopReturned =>
                /\ CurrentSystem.pc = "done"
                /\ CurrentMic.pc = "done"
                /\ system_audio_device = None => last.system_read = <<>>
                /\ mic_device = None => last.mic_read = <<>>)
    /\ [][(~recording /\ StartStep) =>
            /\ recording'
            /\ system_audio_frames' = <<>>
            /\ mic_audio_frames' = <<>>
            /\ system_audio_thread' # None
            /\ mic_audio_thread' # None
            /\ system_audio_thread'[1] # mic_audio_thread'[1]
            /\ {system_audio_thread'[1], mic_audio_thread'[1]}
                  \cap Running = {}
            /\ threads'[system_audio_thread'[1]] = NewThread("system")
            /\ threads'[mic_audio_thread'[1]] = NewThread("mic")]_vars

\* C18 witness: a session started from Idle with the system device unset
\* and a microphone selected was stopped; the system thread ended without
\* a stream and the microphone chunks were read by the mixer.
C18_Witness ==
    /\ StopReturned
    /\ system_audio_device = None
    /\ mic_device # None
    /\ CurrentSystem.stream = "none"
    /\ CurrentSystem.pc = "done"
    /\ last.system_read = <<>>
    /\ last.mic_read # <<>>

\* C19: single-writer ownership: every chunk in system_audio_frames was
\* appended by the system-audio thread of the current session and every
\* chunk in mic_audio_frames by its microphone thread, chunks are only ever
\* appended at the end (read order), and no step of a capture thread
\* writes the recording flag.
C19_SingleWriter ==
    /\ [](/\ \A i \in DOMAIN system_audio_frames :
                /\ system_audio_thread # None
                /\ system_audio_frames[i].by = system_audio_thread[1]
          /\ \A i \in DOMAIN mic_audio_frames :
                /\ mic_audio_thread # None
                /\ mic_audio_frames[i].by = mic_audio_thread[1])
    /\ [][/\ ~StartStep =>
                /\ IsPrefix(system_audio_frames, system_audio_frames')
                /\ IsPrefix(mic_audio_frames, mic_audio_frames')
          /\ threads' # threads /\ ~StartStep => recording' = recording]_vars

\* Thread t appended a chunk to its buffer in this step.
Appended(t) ==
    \/ /\ Len(system_audio_frames') = Len(system_audio_frames) + 1
       /\ system_audio_frames'[Len(system_audio_frames')].by = t
       /\ threads[t].src = "system"
    \/ /\ Len(mic_audio_frames') = Len(mic_audio_frames) + 1
       /\ mic_audio_frames'[Len(mic_audio_frames')].by = t
       /\ threads[t].src = "mic"

\* Threads that were capturing when the last stop_recording cleared the
\* flag and are still in their loop after the start_recording from Idle
\* that followed: the recorder names none of them.
Survivors ==
    IF last.op = "start" /\ ~last.was_recording
    THEN {t \in Running : ~IsCurrent(t)}
    ELSE {}

\* C20: once stop_recording has cleared the flag, a capture thread appends
\* at most the chunk of its read in flight and then leaves its loop: a
\* chunk appended while the flag is clear is the thread's last step, and
\* no thread that was told to stop is still capturing after it appended to
\* the buffers of the next session.
C20_StopsAtLoopBoundary ==
    /\ [](\A t \in Survivors :
            /\ ChunksBy(system_audio_frames, t) = {}
            /\ ChunksBy(mic_audio_frames, t) = {})
    /\ [][\A t \in DOMAIN threads :
            (~recording /\ threads[t].pc = "read" /\ Appended(t)) =>
                (t \in DOMAIN threads' => threads'[t].pc = "done")]_vars

\* C21: once stop_recording has been called while recording, both capture
\* threads of the session eventually end and stop_recording eventually
\* returns, given fair scheduling and a driver that answers every call.
C21_StopEventuallyReturns ==
    (ctl = "join") ~> (StopReturned /\ CurrentSystem.pc = "done"
                                    /\ CurrentMic.pc = "done")

\* C21 witness: stop_recording waits for a thread that is inside stream.read.
C21_Witness ==
    /\ ctl = "join"
    /\ ~recording
    /\ CurrentMic.pc = "read"

\* C22: after stop_recording has returned from a recording, neither buffer
\* holds a chunk of the finished session, and mix_audio_sources called
\* again without a new recording yields no audio.
C22_BuffersDiscardedAfterMix ==
    StopReturned =>
        /\ system_audio_frames = <<>>
        /\ mic_audio_frames = <<>>
        /\ mix_audio_sources(system_audio_frames, mic_audio_frames,
                             "none").result = None

\* C23: at the default configuration the two recorders, given the same
\* devices and the same events, agree on the recording flag, on both
\* buffers and, whenever stop_recording has returned, on the mix: the
\* file returned, the sources used and the mixed waveform.  The joins of
\* DualAudioRecorder can return whenever those of AudioRecorder can.
C23_RecordersAgree ==
    dual.kind = "dual" =>
        /\ dual.recording = recording
        /\ dual.system_audio_frames = system_audio_frames
        /\ dual.mic_audio_frames = mic_audio_frames
        /\ dual.ctl = ctl
        /\ JoinReady => DualJoinReady(dual)
        /\ dual.returned = (last.op = "stop")
        /\ last.op = "stop" => dual.result = last.result
        /\ StopReturned =>
              /\ dual.mix[1].source = last.mix.source
              /\ dual.mix[1].mixed = last.mix.mixed
              /\ dual.mix[1].raised = last.mix.raised

\* C23 witness: both recorders returned a mix of both sources, the
\* microphone attenuated.
C23_Witness ==
    /\ dual.kind = "dual"
    /\ StopReturned
    /\ last.mix.source = "both"
    /\ dual.mix # None
    /\ dual.mix[1].source = "both"
    /\ dual.mix[1].mixed # None

\* Frames really captured into a buffer: chunk_size frames per chunk.
CapturedFrames(frames) == chunk_size * Len(frames)

\* Milliseconds of k frames, rounded as len(segment) is.
FramesMs(k) == (2 * 1000 * k + sample_rate) \div (2 * sample_rate)

\* C24: the waveform the mixer decodes from each buffer lasts as long as
\* the capture did (chunk_size frames per chunk), whatever channel count
\* the stream was opened with; so a mix of both sources lasts as long as
\* the shorter capture.
C24_DecodedDurationIsCaptured ==
    StopReturned =>
        /\ FrameCount(Decode(last.system_read))
              = CapturedFrames(last.system_read)
        /\ FrameCount(Decode(last.mic_read)) = CapturedFrames(last.mic_read)
        /\ last.mix.source = "both" =>
              LenMs(last.mix.mixed[1])
                 = Min(FramesMs(CapturedFrames(last.system_read)),
                       FramesMs(CapturedFrames(last.mic_read)))

\* C25: after a scan the system device and the microphone are never the
\* same device, and the microphone selected among the scan's candidates is
\* not a device whose name matches a system keyword.
C25_DistinctDevices ==
    (last.op = "scan" /\ ~last.raised) =>
        /\ (system_audio_device # None /\ mic_device # None) =>
              system_audio_device # mic_device
        /\ MicPositions(last.devs) # {} =>
              /\ mic_device # None
              /\ mic_device[1] + 1 \in DOMAIN last.devs
              /\ last.devs[mic_device[1] + 1].name \cap system_keywords = {}

\* C26: transcription leaves the audio file it was given as it was, and
\* the transcript is written to another path, for every file the `auto`
\* command can find (.wav or .mp3).
C26_TranscribeKeepsAudio ==
    (disk.kind = "disk" /\ disk.last.op = "process_existing_recording") =>
        /\ disk.last.audio_after = disk.last.audio_before
        /\ disk.last.transcript_file # None =>
              disk.last.transcript_file[1] # disk.last.audio_file

\* C28: when process_recording transcribed both the video's audio and the
\* mixed audio, the text handed to the summary is the video transcript.
C28_SummaryFromVideoTranscript ==
    (/\ disk.kind = "disk"
     /\ disk.last.op = "process_recording"
     /\ disk.last.video_transcript # None
     /\ disk.last.mixed_transcript # None) =>
        /\ disk.last.summarised # None
        /\ disk.last.summarised[1] = TextContent("video")

\* The sequence of list entries is ordered by created_at, newest first.
NewestFirst(entries) ==
    \A i, j \in DOMAIN entries :
        i < j => entries[i].info.created_at >= entries[j].info.created_at

\* C30: every session directory a processing flow made is among the
\* entries of list_sessions, and the entries are ordered by created_at,
\* newest first.
C30_SessionsListed ==
    disk.kind = "disk" =>
        /\ \A n \in DOMAIN disk.sessions :
              \E i \in DOMAIN list_sessions(disk.sessions) :
                  list_sessions(disk.sessions)[i].name = n
        /\ NewestFirst(list_sessions(disk.sessions))

\* C29: when mix_audio_sources has returned, whether it wrote the mixed
\* file, found no audio or caught an error, no temporary file it created
\* is left on disk.
C29_NoTempFileLeft ==
    StopReturned =>
        /\ last.mix.left \cap {"temp_system", "temp_mic"} = {}
        /\ last.mix.left \subseteq last.mix.created

\* C27: in VideoRecorder, whatever the sequence of start_recording and
\* stop_recording calls, no frame is written to a writer after its release,
\* a released writer is the current one only when every screen thread has
\* ended, and once stop_recording has returned every writer that
\* start_recording created is released.
C27_WritersReleasedAfterThreads ==
    video.kind = "video" =>
        /\ \A w \in 1..Len(video.writers) : ~video.writers[w].late
        /\ \A w \in 1..Len(video.writers) :
              (video.writers[w].released /\ video.video_writer = Some(w))
                 => \A t \in 1..Len(video.threads) :
                       video.threads[t].pc = "done"
        /\ (video.returned = "stop_true" /\ video.ctl = "idle"
               /\ ~video.recording)
              => \A w \in 1..Len(video.writers) : video.writers[w].released

====
